---------------------------- MODULE Spec2Model ----------------------------
(***************************************************************************)
(* Model of src/server/routes.ts: the Discord sessions opened by the HTTP  *)
(* handlers, the bulk dispatch loop, the process-wide listening client     *)
(* and the WebSocket fan-out of stored replies.                            *)
(*                                                                         *)
(* Handlers are async functions on a single-threaded event loop: one       *)
(* action is the code that runs between two awaits (the resolution of the  *)
(* awaited promise and everything executed up to the next await or the     *)
(* response).                                                              *)
(***************************************************************************)
EXTENDS Integers, Sequences, FiniteSets, TLC

VARIABLES
    sess,           \* the discord.js Client objects created so far
    discordClient,  \* routes.ts:21, 0 is null
    nextSess,       \* number of Client objects constructed
    envToken,       \* process.env.DISCORD_BOT_TOKEN
    req,            \* the locals of each HTTP request in flight
    clients,        \* routes.ts:19, in insertion order
    ws,             \* the WebSocket objects
    messageReplies, \* the messageReplies table, in insertion order
    nextReply,      \* number of replies inserted or attempted
    ingest,         \* reply ingestions awaiting the store's answer
    broadcast,      \* how many newReply broadcasts were made for each reply
    lastBroadcast,  \* the latest newReply broadcast and what became of it
    lastMessage     \* the latest message an observer got and the reply made of it

sessVars == <<sess, discordClient, nextSess>>
hubVars == <<clients, ws, messageReplies, nextReply, ingest, broadcast, lastBroadcast,
            lastMessage>>
vars == <<sess, discordClient, nextSess, envToken, req, clients, ws,
          messageReplies, nextReply, ingest, broadcast, lastBroadcast, lastMessage>>

---------------------------------------------------------------------------
(* Bounds of the model *)

MaxSessions == 2    \* Client objects constructed in one behaviour
MaxExplicit == 2    \* length of the userIds array of a bulk request
MaxReplies == 2     \* reply insertions attempted in one behaviour

---------------------------------------------------------------------------
(* The platform the sessions talk to *)

NoToken == "none"
Bots == {"b1"}
Users == {"u1", "u2", "b1"}
Guilds == <<"g1", "g2">>

GuildMembers(g) ==
    IF g = "g1" THEN <<"u1", "u2">> ELSE <<"u2", "b1">>

IsBot(u) == u \in Bots

SessIds == 1..(MaxSessions + 1)
Reqs == {"r1", "r2"}
WsIds == {"w1", "w2"}
ReplyIds == 1..MaxReplies

RECURSIVE SeqsUpTo(_, _)
SeqsUpTo(S, n) ==
    IF n = 0 THEN {<<>>}
    ELSE LET shorter == SeqsUpTo(S, n - 1)
         IN  shorter \cup {Append(s, x) : s \in {t \in shorter : Len(t) = n - 1}, x \in S}

Range(s) == {s[k] : k \in 1..Len(s)}

---------------------------------------------------------------------------
(* Sessions *)

NoSession == [state |-> "none", observer |-> FALSE, token |-> NoToken]

\* new Client({...}): not logged in, no listeners
NewClient(tok) == [state |-> "created", observer |-> FALSE, token |-> tok]

\* client.destroy()
Destroy(ss, c) == [ss EXCEPT ![c].state = "destroyed"]

\* client.on(Events.MessageCreate, ...)
OnMessageCreate(ss, c) == [ss EXCEPT ![c].observer = TRUE]

\* process.env.DISCORD_BOT_TOKEN || requestToken
PickToken(requestToken) ==
    IF envToken # NoToken THEN envToken ELSE requestToken

---------------------------------------------------------------------------
(* Requests *)

NoResp == [status |-> 0, sentCount |-> 0, failedCount |-> 0, failedIds |-> <<>>]

IdleReq ==
    [pc |-> "idle", kind |-> "none", client |-> 0, resp |-> NoResp,
     userIds |-> <<>>, selectAll |-> FALSE, delay |-> 0,
     targetUserIds |-> <<>>, i |-> 0, gi |-> 0,
     results |-> [success |-> 0, failed |-> 0, failedIds |-> <<>>],
     outcome |-> <<>>, waits |-> {}, loggedIn |-> FALSE,
     handedOff |-> FALSE, prevListener |-> 0,
     guildId |-> "none", members |-> <<>>, fetched |-> {}, lateError |-> FALSE]

NoBroadcast == [id |-> 0, path |-> "none", open |-> {}, threw |-> "none", status |-> 0]

NoMessage == [client |-> 0, isDM |-> FALSE, authorBot |-> FALSE, reply |-> 0]

NoWs == [readyState |-> "NONE", inbox |-> <<>>, snapshot |-> "none", read |-> <<>>]

Respond(rq, code) == [rq EXCEPT !.pc = "done", !.resp.status = code]

Delays == {0, 100}
Tokens == {NoToken, "req"}

---------------------------------------------------------------------------
(* POST /api/dm/bulk *)

\* lines 310-345: validation, token selection, new Client, login issued.
\* lateError tells whether, in this request, one of the statements that
\* follow the handoff inside the try (lines 422-466) is going to throw.
BulkStart(r, lists, lates) ==
    /\ req[r].pc = "idle"
    /\ \E valid \in BOOLEAN, requestToken \in Tokens, ids \in lists,
          all \in BOOLEAN, d \in Delays, late \in lates :
        LET token == PickToken(requestToken)
            rq == [IdleReq EXCEPT !.kind = "bulk", !.userIds = ids,
                                  !.selectAll = all, !.delay = d,
                                  !.lateError = late]
        IN  IF ~valid \/ token = NoToken
            THEN /\ req' = [req EXCEPT ![r] = Respond([IdleReq EXCEPT !.kind = "bulk"], 400)]
                 /\ UNCHANGED sessVars
            ELSE /\ nextSess < MaxSessions
                 /\ nextSess' = nextSess + 1
                 /\ sess' = [sess EXCEPT ![nextSess + 1] = NewClient(token)]
                 /\ req' = [req EXCEPT ![r] =
                               [rq EXCEPT !.client = nextSess + 1, !.pc = "login"]]
                 /\ UNCHANGED discordClient
    /\ UNCHANGED <<envToken, hubVars>>

\* lines 467-476: the catch of the inner try
BulkCatchResetsSlot(r, rq, ss) ==
    /\ sess' = IF discordClient # 0
               THEN Destroy(Destroy(ss, rq.client), discordClient)
               ELSE Destroy(ss, rq.client)
    /\ discordClient' = 0
    /\ req' = [req EXCEPT ![r] = Respond(rq, 400)]
    /\ UNCHANGED nextSess
BulkCatch(r, rq, ss) ==
    /\ sess' = Destroy(ss, rq.client)
    /\ req' = [req EXCEPT ![r] = Respond(rq, 400)]
    /\ UNCHANGED <<discordClient, nextSess>>

\* lines 413-476: the listening client is replaced and the tally returned.
\* The statements after line 419 are still inside the try: when one of them
\* throws, the catch (467-476) runs client.destroy() on the client that is
\* now in discordClient, and answers 400.
Handoff(r, rq, ss) ==
    LET old == IF discordClient # 0 THEN Destroy(ss, discordClient) ELSE ss
        promoted == [rq EXCEPT !.handedOff = TRUE, !.prevListener = discordClient]
    IN  /\ discordClient' = rq.client
        /\ IF rq.lateError
           THEN /\ sess' = Destroy(OnMessageCreate(old, rq.client), rq.client)
                /\ req' = [req EXCEPT ![r] = Respond(promoted, 400)]
           ELSE /\ sess' = OnMessageCreate(old, rq.client)
                /\ req' = [req EXCEPT ![r] =
                              [promoted EXCEPT !.pc = "done",
                                               !.resp = [status |-> 200,
                                                         sentCount |-> rq.results.success,
                                                         failedCount |-> rq.results.failed,
                                                         failedIds |-> rq.results.failedIds]]]
        /\ UNCHANGED nextSess

\* line 384: the for-of loop takes the next target or ends
NextTargetOnce(r, rq, ss) ==
    IF rq.i < 1 /\ rq.targetUserIds # <<>>
    THEN /\ req' = [req EXCEPT ![r] = [rq EXCEPT !.i = rq.i + 1, !.pc = "fetchUser"]]
         /\ sess' = ss
         /\ UNCHANGED <<discordClient, nextSess>>
    ELSE Handoff(r, rq, ss)
NextTarget(r, rq, ss) ==
    IF rq.i < Len(rq.targetUserIds)
    THEN /\ req' = [req EXCEPT ![r] = [rq EXCEPT !.i = rq.i + 1, !.pc = "fetchUser"]]
         /\ sess' = ss
         /\ UNCHANGED <<discordClient, nextSess>>
    ELSE Handoff(r, rq, ss)

\* lines 364-377: the for-of loop over guildArray takes the next guild or ends
NextGuild(r, rq, ss) ==
    IF rq.gi < Len(Guilds)
    THEN /\ req' = [req EXCEPT ![r] = [rq EXCEPT !.gi = rq.gi + 1, !.pc = "membersFetch"]]
         /\ sess' = ss
         /\ UNCHANGED <<discordClient, nextSess>>
    ELSE NextTarget(r, rq, ss)

\* lines 345-361: login resolves or rejects
BulkLogin(r) ==
    /\ req[r].pc = "login" /\ req[r].kind = "bulk"
    /\ \E ok \in BOOLEAN :
        IF ok
        THEN LET rq == [req[r] EXCEPT !.targetUserIds = req[r].userIds,
                                      !.loggedIn = TRUE]
                 ss == [sess EXCEPT ![rq.client].state = "authenticated"]
             IN  IF rq.selectAll THEN NextGuild(r, rq, ss) ELSE NextTarget(r, rq, ss)
        ELSE BulkCatch(r, req[r], sess)
    /\ UNCHANGED <<envToken, hubVars>>

\* lines 369-373: forEach member, push the ids that are no bot and not yet listed
RECURSIVE AddMembersWithBots(_, _)
AddMembersWithBots(targets, members) ==
    IF members = <<>> THEN targets
    ELSE AddMembersWithBots(IF Head(members) \notin Range(targets)
                            THEN Append(targets, Head(members)) ELSE targets,
                            Tail(members))
RECURSIVE AddMembers(_, _)
AddMembers(targets, members) ==
    IF members = <<>> THEN targets
    ELSE LET m == Head(members)
         IN  AddMembers(IF ~IsBot(m) /\ m \notin Range(targets)
                        THEN Append(targets, m) ELSE targets,
                        Tail(members))

\* lines 366-376: guild.members.fetch() resolves or rejects
BulkMembersFetchAborts(r) ==
    /\ req[r].pc = "membersFetch" /\ req[r].kind = "bulk"
    /\ \E ok \in BOOLEAN :
        LET rq == req[r]
            g == Guilds[rq.gi]
        IN  IF ok
            THEN NextGuild(r, [rq EXCEPT !.targetUserIds =
                                   AddMembers(rq.targetUserIds, GuildMembers(g)),
                                         !.fetched = rq.fetched \cup {g}], sess)
            ELSE BulkCatch(r, rq, sess)
    /\ UNCHANGED <<envToken, hubVars>>
BulkMembersFetch(r) ==
    /\ req[r].pc = "membersFetch" /\ req[r].kind = "bulk"
    /\ \E ok \in BOOLEAN :
        LET rq == req[r]
            g == Guilds[rq.gi]
        IN  IF ok
            THEN NextGuild(r, [rq EXCEPT !.targetUserIds =
                                   AddMembers(rq.targetUserIds, GuildMembers(g)),
                                         !.fetched = rq.fetched \cup {g}], sess)
            ELSE NextGuild(r, rq, sess)
    /\ UNCHANGED <<envToken, hubVars>>

\* lines 388-389 and 408-409
RecordFailureNoPush(rq, tag) ==
    [rq EXCEPT !.results.failed = rq.results.failed + 1,
               !.outcome = Append(rq.outcome, tag)]
RecordFailure(rq, tag) ==
    [rq EXCEPT !.results.failed = rq.results.failed + 1,
               !.results.failedIds = Append(rq.results.failedIds, rq.targetUserIds[rq.i]),
               !.outcome = Append(rq.outcome, tag)]

\* line 394: user.bot of the user the id resolved to
UserBotNever(userId) == FALSE
UserBot(userId) == IsBot(userId)

\* lines 386-396 and 406-410: client.users.fetch(userId) resolves or rejects
BulkFetchUserEscalates(r) ==
    /\ req[r].pc = "fetchUser" /\ req[r].kind = "bulk"
    /\ \E res \in {"throws", "absent", "found"} :
        LET rq == req[r]
            userId == rq.targetUserIds[rq.i]
        IN  CASE res = "throws" -> BulkCatch(r, RecordFailure(rq, "resolveThrows"), sess)
              [] res = "absent" -> NextTarget(r, RecordFailure(rq, "absent"), sess)
              [] res = "found" /\ UserBot(userId) ->
                    NextTarget(r, [rq EXCEPT !.outcome = Append(rq.outcome, "bot")], sess)
              [] OTHER ->
                    /\ req' = [req EXCEPT ![r] = [rq EXCEPT !.pc = "createDM"]]
                    /\ UNCHANGED sessVars
    /\ UNCHANGED <<envToken, hubVars>>
BulkFetchUser(r) ==
    /\ req[r].pc = "fetchUser" /\ req[r].kind = "bulk"
    /\ \E res \in {"throws", "absent", "found"} :
        LET rq == req[r]
            userId == rq.targetUserIds[rq.i]
        IN  CASE res = "throws" -> NextTarget(r, RecordFailure(rq, "resolveThrows"), sess)
              [] res = "absent" -> NextTarget(r, RecordFailure(rq, "absent"), sess)
              [] res = "found" /\ UserBot(userId) ->
                    NextTarget(r, [rq EXCEPT !.outcome = Append(rq.outcome, "bot")], sess)
              [] OTHER ->
                    /\ req' = [req EXCEPT ![r] = [rq EXCEPT !.pc = "createDM"]]
                    /\ UNCHANGED sessVars
    /\ UNCHANGED <<envToken, hubVars>>

\* line 403: the condition of the inter-message delay
DelayGuardNoLast(rq) == rq.delay > 0
DelayGuard(rq) ==
    /\ rq.delay > 0
    /\ rq.targetUserIds[rq.i] # rq.targetUserIds[Len(rq.targetUserIds)]

\* lines 398 and 406-410: user.createDM() resolves or rejects
BulkCreateDM(r) ==
    /\ req[r].pc = "createDM" /\ req[r].kind = "bulk"
    /\ \E ok \in BOOLEAN :
        IF ok
        THEN /\ req' = [req EXCEPT ![r].pc = "send"]
             /\ UNCHANGED sessVars
        ELSE NextTarget(r, RecordFailure(req[r], "sendThrows"), sess)
    /\ UNCHANGED <<envToken, hubVars>>

\* lines 399-410: dmChannel.send(message) resolves or rejects
BulkSend(r) ==
    /\ req[r].pc = "send" /\ req[r].kind = "bulk"
    /\ \E ok \in BOOLEAN :
        IF ok
        THEN LET rq == [req[r] EXCEPT !.results.success = req[r].results.success + 1,
                                      !.outcome = Append(req[r].outcome, "sent")]
             IN  IF DelayGuard(rq)
                 THEN /\ req' = [req EXCEPT ![r] = [rq EXCEPT !.pc = "delay"]]
                      /\ UNCHANGED sessVars
                 ELSE NextTarget(r, rq, sess)
        ELSE NextTarget(r, RecordFailure(req[r], "sendThrows"), sess)
    /\ UNCHANGED <<envToken, hubVars>>

\* line 404: the timer of the delay fires
BulkDelay(r) ==
    /\ req[r].pc = "delay"
    /\ NextTarget(r, [req[r] EXCEPT !.waits = req[r].waits \cup {req[r].i}], sess)
    /\ UNCHANGED <<envToken, hubVars>>

\* the response has been written: the request's slot is free for the next one
Finish(r) ==
    /\ req[r].pc = "done"
    /\ req' = [req EXCEPT ![r] = IdleReq]
    /\ UNCHANGED <<sessVars, envToken, hubVars>>

Bulk(r, lists, lates) ==
    \/ BulkStart(r, lists, lates)
    \/ BulkLogin(r)
    \/ BulkMembersFetch(r)
    \/ BulkFetchUser(r)
    \/ BulkCreateDM(r)
    \/ BulkSend(r)
    \/ BulkDelay(r)

---------------------------------------------------------------------------
(* POST /api/dm/single, /api/guild/members, /api/guilds *)

\* lines 68-100, 137-162, 249-274: token selection, new Client, login issued
OpenStart(r, kind) ==
    /\ req[r].pc = "idle"
    /\ \E valid \in BOOLEAN, requestToken \in Tokens, g \in {"none", "g1", "gX"} :
        LET token == PickToken(requestToken)
            rq == [IdleReq EXCEPT !.kind = kind,
                                  !.guildId = IF kind = "members" THEN g ELSE "none"]
        IN  /\ kind # "members" => g = "none"
            /\ kind # "single" => valid
            /\ IF ~valid \/ token = NoToken
               THEN /\ req' = [req EXCEPT ![r] = Respond([IdleReq EXCEPT !.kind = kind], 400)]
                    /\ UNCHANGED sessVars
               ELSE /\ nextSess < MaxSessions
                    /\ nextSess' = nextSess + 1
                    /\ sess' = [sess EXCEPT ![nextSess + 1] = NewClient(token)]
                    /\ req' = [req EXCEPT ![r] =
                                  [rq EXCEPT !.client = nextSess + 1, !.pc = "login"]]
                    /\ UNCHANGED discordClient
    /\ UNCHANGED <<envToken, hubVars>>

\* lines 111-117, 223-229, 284-290: client.destroy() and the 200 answer
DestroyAndAnswerKeepsClient(r, rq, ss, code) ==
    /\ sess' = ss
    /\ req' = [req EXCEPT ![r] = Respond(rq, code)]
    /\ UNCHANGED <<discordClient, nextSess>>
DestroyAndAnswer(r, rq, ss, code) ==
    /\ sess' = Destroy(ss, rq.client)
    /\ req' = [req EXCEPT ![r] = Respond(rq, code)]
    /\ UNCHANGED <<discordClient, nextSess>>

\* lines 118-127, 230-239, 291-300: the catch of the inner try
OpenCatch(r, rq, ss) == DestroyAndAnswer(r, rq, ss, 400)

\* lines 181-188 and 199-206: the object a member is mapped to (it has no bot field)
MemberEntry(m, g) == [id |-> m, guildId |-> g]

\* line 221: member.bot of a mapped object
EntryBot(e) == IF "bot" \in DOMAIN e THEN e.bot ELSE FALSE

\* lines 215-217: keep the first entry of every id
RECURSIVE LastOccurrences(_, _)
LastOccurrences(entries, seen) ==
    IF entries = <<>> THEN <<>>
    ELSE IF \E k \in 2..Len(entries) : entries[k].id = Head(entries).id
         THEN LastOccurrences(Tail(entries), seen)
         ELSE <<Head(entries)>> \o LastOccurrences(Tail(entries), seen)
RECURSIVE FirstOccurrences(_, _)
FirstOccurrences(entries, seen) ==
    IF entries = <<>> THEN <<>>
    ELSE IF Head(entries).id \in seen THEN FirstOccurrences(Tail(entries), seen)
    ELSE <<Head(entries)>> \o FirstOccurrences(Tail(entries), seen \cup {Head(entries).id})

\* line 221: filter out the entries flagged as bots
RECURSIVE WithoutBots(_)
WithoutBots(entries) ==
    IF entries = <<>> THEN <<>>
    ELSE IF EntryBot(Head(entries)) THEN WithoutBots(Tail(entries))
    ELSE <<Head(entries)>> \o WithoutBots(Tail(entries))

MapMembers(g) == [k \in 1..Len(GuildMembers(g)) |-> MemberEntry(GuildMembers(g)[k], g)]

\* lines 195-229: the loop over guildArray takes the next guild, or the list is
\* deduplicated, filtered and returned
NextPreviewGuild(r, rq) ==
    IF rq.gi < Len(Guilds)
    THEN /\ req' = [req EXCEPT ![r] = [rq EXCEPT !.gi = rq.gi + 1, !.pc = "membersFetch"]]
         /\ UNCHANGED sessVars
    ELSE DestroyAndAnswer(r, [rq EXCEPT !.members =
                                  WithoutBots(FirstOccurrences(rq.members, {}))], sess, 200)

\* lines 100, 162, 274: login resolves or rejects
OpenLogin(r) ==
    /\ req[r].pc = "login" /\ req[r].kind \in {"single", "members", "guilds"}
    /\ \E ok \in BOOLEAN :
        IF ok
        THEN LET rq == [req[r] EXCEPT !.loggedIn = TRUE]
                 ss == [sess EXCEPT ![rq.client].state = "authenticated"]
             IN  CASE rq.kind = "single" ->
                        /\ req' = [req EXCEPT ![r] = [rq EXCEPT !.pc = "fetchUser"]]
                        /\ sess' = ss
                        /\ UNCHANGED <<discordClient, nextSess>>
                   [] rq.kind = "guilds" -> DestroyAndAnswer(r, rq, ss, 200)
                   [] rq.kind = "members" /\ rq.guildId # "none" ->
                        /\ req' = [req EXCEPT ![r] = [rq EXCEPT !.pc = "guildFetch"]]
                        /\ sess' = ss
                        /\ UNCHANGED <<discordClient, nextSess>>
                   [] OTHER ->
                        /\ req' = [req EXCEPT ![r] = [rq EXCEPT !.gi = 1, !.pc = "membersFetch"]]
                        /\ sess' = ss
                        /\ UNCHANGED <<discordClient, nextSess>>
        ELSE OpenCatch(r, req[r], sess)
    /\ UNCHANGED <<envToken, hubVars>>

\* lines 103-110: users.fetch, createDM and send of /api/dm/single
SingleStep(r) ==
    /\ req[r].kind = "single" /\ req[r].pc \in {"fetchUser", "createDM", "send"}
    /\ \E res \in {"throws", "absent", "ok"} :
        LET rq == req[r]
        IN  CASE res = "throws" -> OpenCatch(r, rq, sess)
              [] res = "absent" -> rq.pc = "fetchUser" /\ OpenCatch(r, rq, sess)
              [] rq.pc = "send" /\ res = "ok" -> DestroyAndAnswer(r, rq, sess, 200)
              [] OTHER ->
                    /\ req' = [req EXCEPT ![r].pc =
                                  IF rq.pc = "fetchUser" THEN "createDM" ELSE "send"]
                    /\ UNCHANGED sessVars
    /\ UNCHANGED <<envToken, hubVars>>

\* lines 168-175: client.guilds.fetch(guildId) resolves, finds nothing or rejects
MembersGuildFetch(r) ==
    /\ req[r].kind = "members" /\ req[r].pc = "guildFetch"
    /\ \E res \in {"throws", "absent", "ok"} :
        LET rq == req[r]
        IN  CASE res = "throws" -> OpenCatch(r, rq, sess)
              [] res = "absent" -> DestroyAndAnswer(r, rq, sess, 404)
              [] OTHER ->
                    /\ rq.guildId \in Range(Guilds)
                    /\ req' = [req EXCEPT ![r].pc = "membersFetch"]
                    /\ UNCHANGED sessVars
    /\ UNCHANGED <<envToken, hubVars>>

\* lines 178-229: guild.members.fetch() resolves or rejects
MembersFetch(r) ==
    /\ req[r].kind = "members" /\ req[r].pc = "membersFetch"
    /\ \E ok \in BOOLEAN :
        LET rq == req[r]
        IN  IF rq.guildId # "none"
            THEN IF ok
                 THEN DestroyAndAnswer(r, [rq EXCEPT !.members =
                                              WithoutBots(MapMembers(rq.guildId))], sess, 200)
                 ELSE OpenCatch(r, rq, sess)
            ELSE IF ok
                 THEN NextPreviewGuild(r, [rq EXCEPT !.members =
                                              rq.members \o MapMembers(Guilds[rq.gi]),
                                                     !.fetched = rq.fetched \cup {Guilds[rq.gi]}])
                 ELSE NextPreviewGuild(r, rq)
    /\ UNCHANGED <<envToken, hubVars>>

---------------------------------------------------------------------------
(* POST /api/startReplyListener *)

\* lines 627-692: the old listening client is destroyed, a new one takes the
\* slot, gets its observer and starts to log in
ListenerStart(r) ==
    /\ req[r].pc = "idle"
    /\ \E token \in Tokens :
        LET rq == [IdleReq EXCEPT !.kind = "listener"]
        IN  IF token = NoToken
            THEN /\ req' = [req EXCEPT ![r] = Respond(rq, 400)]
                 /\ UNCHANGED sessVars
            ELSE LET old == IF discordClient # 0 THEN Destroy(sess, discordClient) ELSE sess
                     new == nextSess + 1
                 IN  /\ nextSess < MaxSessions
                     /\ nextSess' = new
                     /\ sess' = OnMessageCreate([old EXCEPT ![new] = NewClient(token)], new)
                     /\ discordClient' = new
                     /\ req' = [req EXCEPT ![r] =
                                   [rq EXCEPT !.client = new, !.pc = "login",
                                              !.handedOff = TRUE,
                                              !.prevListener = discordClient]]
    /\ UNCHANGED <<envToken, hubVars>>

\* lines 692-704: login resolves or rejects. The client may have been destroyed
\* by another request while it was logging in: what login does then is left to
\* discord.js (it may reject, resolve without a connection, or connect).
ListenerLogin(r) ==
    /\ req[r].pc = "login" /\ req[r].kind = "listener"
    /\ \E ok \in BOOLEAN, connects \in BOOLEAN :
        LET c == req[r].client
        IN  /\ sess[c].state # "destroyed" => connects = ok
            /\ connects => ok
            /\ sess' = IF connects THEN [sess EXCEPT ![c].state = "authenticated"] ELSE sess
            /\ req' = [req EXCEPT ![r] =
                          Respond([req[r] EXCEPT !.loggedIn = ok], IF ok THEN 200 ELSE 500)]
    /\ UNCHANGED <<discordClient, nextSess, envToken, hubVars>>

Handlers(r, lists) ==
    \/ Bulk(r, lists, {FALSE})
    \/ \E kind \in {"single", "members", "guilds"} : OpenStart(r, kind)
    \/ OpenLogin(r)
    \/ SingleStep(r)
    \/ MembersGuildFetch(r)
    \/ MembersFetch(r)
    \/ ListenerStart(r)
    \/ ListenerLogin(r)
    \/ Finish(r)

---------------------------------------------------------------------------
(* The reply store and the WebSocket hub *)

Event(type, data) == [type |-> type, data |-> data]

\* ws.send(data) on one socket
Deliver(sockets, w, ev) == [sockets EXCEPT ![w].inbox = Append(sockets[w].inbox, ev)]

\* a socket of clients whose readyState is OPEN
OpenClients == {w \in Range(clients) : ws[w].readyState = "OPEN"}

NoSocket == "none"

\* lines 446-450, 538-542, 604-608: clients.forEach, send to the open ones.
\* There is no try around the send inside the callback: when the send to
\* socket bad throws, the forEach ends there.
RECURSIVE SendToAll(_, _, _, _)
SendToAll(sockets, list, ev, bad) ==
    IF list = <<>> THEN sockets
    ELSE IF sockets[Head(list)].readyState # "OPEN"
         THEN SendToAll(sockets, Tail(list), ev, bad)
         ELSE IF Head(list) = bad THEN sockets
         ELSE SendToAll(Deliver(sockets, Head(list), ev), Tail(list), ev, bad)

\* lines 555-560: a subscriber connects: it joins clients and the select of
\* the stored replies is issued
WsConnect(w) ==
    /\ ws[w].readyState = "NONE"
    /\ ws' = [ws EXCEPT ![w].readyState = "OPEN", ![w].snapshot = "issued"]
    /\ clients' = Append(clients, w)
    /\ UNCHANGED <<sessVars, envToken, req, messageReplies, nextReply, ingest,
                   broadcast, lastBroadcast, lastMessage>>

\* line 560: the store executes the select, or fails (lines 568-570)
DbSelect(w) ==
    /\ ws[w].snapshot = "issued"
    /\ \E ok \in BOOLEAN :
        ws' = IF ok
              THEN [ws EXCEPT ![w].snapshot = "read", ![w].read = messageReplies]
              ELSE [ws EXCEPT ![w].snapshot = "failed"]
    /\ UNCHANGED <<sessVars, envToken, req, clients, messageReplies, nextReply,
                   ingest, broadcast, lastBroadcast, lastMessage>>

\* lines 561-567: the then-callback sends the snapshot
SendInitial(w) ==
    /\ ws[w].snapshot = "read"
    /\ LET sent == IF ws[w].readyState = "OPEN"
                   THEN Deliver(ws, w, Event("initialReplies", ws[w].read)) ELSE ws
       IN  ws' = [sent EXCEPT ![w].snapshot = "done", ![w].read = <<>>]
    /\ UNCHANGED <<sessVars, envToken, req, clients, messageReplies, nextReply,
                   ingest, broadcast, lastBroadcast, lastMessage>>

\* the socket stops being open; its close event is still to be handled
WsCloses(w) ==
    /\ ws[w].readyState = "OPEN"
    /\ ws' = [ws EXCEPT ![w].readyState = "CLOSED"]
    /\ UNCHANGED <<sessVars, envToken, req, clients, messageReplies, nextReply,
                   ingest, broadcast, lastBroadcast, lastMessage>>

\* lines 615-623: the close or error handler removes the socket from clients
WsOnClose(w) ==
    /\ ws[w].readyState = "CLOSED"
    /\ w \in Range(clients)
    /\ clients' = SelectSeq(clients, LAMBDA x : x # w)
    /\ UNCHANGED <<sessVars, envToken, req, ws, messageReplies, nextReply,
                   ingest, broadcast, lastBroadcast, lastMessage>>

\* lines 429-438, 521-530, 584-593: the insert is issued and the store
\* executes it, or fails; the handler waits for the answer
Insert(path) ==
    /\ nextReply < MaxReplies
    /\ \E ok \in BOOLEAN :
        /\ nextReply' = nextReply + 1
        /\ messageReplies' = IF ok THEN Append(messageReplies, nextReply + 1)
                             ELSE messageReplies
        /\ ingest' = ingest \cup {[id |-> nextReply + 1, ok |-> ok, path |-> path]}

\* lines 517-530: POST /api/replies
PostReply ==
    /\ Insert("post")
    /\ UNCHANGED <<sessVars, envToken, req, clients, ws, broadcast, lastBroadcast,
                   lastMessage>>

\* lines 572-593: a subscriber sends {type: 'reply', ...}
WsReply(w) ==
    /\ ws[w].readyState = "OPEN"
    /\ Insert("ws")
    /\ UNCHANGED <<sessVars, envToken, req, clients, ws, broadcast, lastBroadcast,
                   lastMessage>>

\* lines 424 and 658: only direct messages that are not from a bot
IsReplyAnyAuthor(isDM, authorBot) == isDM
IsReply(isDM, authorBot) == isDM /\ ~authorBot

\* lines 422-438 and 656-672: a connected client with the observer gets a message
MessageCreate(c) ==
    /\ sess[c].observer /\ sess[c].state = "authenticated"
    /\ \E isDM \in BOOLEAN, authorBot \in BOOLEAN :
        /\ IF IsReply(isDM, authorBot)
           THEN Insert("dm")
           ELSE UNCHANGED <<messageReplies, nextReply, ingest>>
        /\ lastMessage' = [client |-> c, isDM |-> isDM, authorBot |-> authorBot,
                           reply |-> IF nextReply' # nextReply THEN nextReply' ELSE 0]
    /\ UNCHANGED <<sessVars, envToken, req, clients, ws, broadcast, lastBroadcast>>

\* the await of the insert: the code after it runs when the insert succeeded,
\* the catch (lines 451, 545, 610) when it failed
AfterInsertAlways(op) == TRUE
AfterInsert(op) == op.ok

\* lines 440-453, 532-548, 595-612: the insert has answered: the stored reply
\* is broadcast as newReply
\* The send to an open socket delivers the event or throws; what is thrown
\* leaves the try of the handler: POST /api/replies answers 500 from its catch
\* (lines 545-548), the other two paths log the error (451-453, 610-612).
Broadcast(op) ==
    /\ op \in ingest
    /\ ingest' = ingest \ {op}
    /\ IF AfterInsert(op)
       THEN \E bad \in OpenClients \cup {NoSocket} :
            /\ ws' = SendToAll(ws, clients, Event("newReply", <<op.id>>), bad)
            /\ broadcast' = [broadcast EXCEPT ![op.id] = broadcast[op.id] + 1]
            /\ lastBroadcast' =
                   [id |-> op.id, path |-> op.path, open |-> OpenClients, threw |-> bad,
                    status |-> IF op.path # "post" THEN 0
                               ELSE IF bad = NoSocket THEN 200 ELSE 500]
       ELSE UNCHANGED <<ws, broadcast, lastBroadcast>>
    /\ UNCHANGED <<sessVars, envToken, req, clients, messageReplies, nextReply, lastMessage>>

Hub(sockets) ==
    \/ \E w \in sockets : WsConnect(w) \/ DbSelect(w) \/ SendInitial(w)
    \/ \E w \in sockets : WsCloses(w) \/ WsOnClose(w)
    \/ PostReply
    \/ \E w \in sockets : WsReply(w)
    \/ \E c \in SessIds : MessageCreate(c)
    \/ \E op \in ingest : Broadcast(op)

---------------------------------------------------------------------------
(* Specifications *)


Init ==
    /\ sess = [s \in SessIds |-> NoSession]
    /\ discordClient = 0
    /\ nextSess = 0
    /\ envToken \in {NoToken, "env"}
    /\ req = [r \in Reqs |-> IdleReq]
    /\ clients = <<>>
    /\ ws = [w \in WsIds |-> NoWs]
    /\ messageReplies = <<>>
    /\ nextReply = 0
    /\ ingest = {}
    /\ broadcast = [id \in ReplyIds |-> 0]
    /\ lastBroadcast = NoBroadcast
    /\ lastMessage = NoMessage

\* one bulk dispatch after the other, with every explicit list
ExplicitLists == SeqsUpTo(Users, MaxExplicit)

Next ==
    \/ Bulk("r1", ExplicitLists, {FALSE})
    \/ Finish("r1")

Spec == Init /\ [][Next]_vars

ShortLists == {<<>>}

\* the steps of a bulk dispatch that wait for a promise to settle: the calls to
\* the platform resolve or reject, and the timer of the delay fires
Progress(r) ==
    \/ BulkLogin(r)
    \/ BulkMembersFetch(r)
    \/ BulkFetchUser(r)
    \/ BulkCreateDM(r)
    \/ BulkSend(r)
    \/ BulkDelay(r)

\* one bulk dispatch with every explicit list, whose awaited promises settle
NextLive ==
    \/ nextSess = 0 /\ BulkStart("r1", ExplicitLists, {FALSE})
    \/ Progress("r1")
    \/ Finish("r1")

SpecLive == Init /\ [][NextLive]_vars /\ WF_vars(Progress("r1"))

\* bulk dispatches and member previews, one after the other
NextResolve ==
    \/ Next
    \/ OpenStart("r1", "members")
    \/ OpenLogin("r1")
    \/ MembersGuildFetch("r1")
    \/ MembersFetch("r1")

SpecResolve == Init /\ [][NextResolve]_vars

\* bulk dispatches, one after the other, in which a statement after the
\* handoff may throw
NextLate ==
    \/ Bulk("r1", ShortLists, BOOLEAN)
    \/ Finish("r1")

SpecLate == Init /\ [][NextLate]_vars

\* two requests of any kind interleaving at their awaits; the bulk requests
\* take their targets from selectAll

NextSessions == \E r \in Reqs : Handlers(r, ShortLists)

SpecSessions == Init /\ [][NextSessions]_vars

\* bulk dispatches on one request interleaving with standalone listeners on
\* the other
NextAbort ==
    \/ Bulk("r1", ShortLists, {FALSE})
    \/ ListenerStart("r2")
    \/ ListenerLogin("r2")
    \/ \E r \in Reqs : Finish(r)

SpecAbort == Init /\ [][NextAbort]_vars

\* the hub, the three ways a reply comes in, and the standalone listener
NextHub ==
    \/ Hub({"w1"})
    \/ nextSess = 0 /\ ListenerStart("r1")
    \/ ListenerLogin("r1")

InitHub == Init /\ envToken = NoToken

SpecHub == InitHub /\ [][NextHub]_vars

\* two subscribers and the replies that come in by POST /api/replies
NextFanout ==
    \/ \E w \in WsIds : WsConnect(w) \/ DbSelect(w) \/ SendInitial(w)
    \/ \E w \in WsIds : WsCloses(w) \/ WsOnClose(w)
    \/ PostReply
    \/ \E op \in ingest : Broadcast(op)

SpecFanout == InitHub /\ [][NextFanout]_vars

---------------------------------------------------------------------------
(* Properties of the dispatch loop *)

Answered(r) == req[r].kind = "bulk" /\ req[r].pc = "done" /\ req[r].resp.status = 200

Failures == {"resolveThrows", "absent", "sendThrows"}

\* the targets, in order, whose attempt ended with one of the given outcomes
RECURSIVE TargetsWith(_, _, _)
TargetsWith(targets, outcome, tags) ==
    IF outcome = <<>> THEN <<>>
    ELSE LET rest == TargetsWith(Tail(targets), Tail(outcome), tags)
         IN  IF Head(outcome) \in tags THEN <<Head(targets)>> \o rest ELSE rest

NotBotSkipped(rq) ==
    Cardinality({k \in 1..Len(rq.outcome) : rq.outcome[k] # "bot"})

\* C1: in the tally a bulk dispatch returns, sentCount + failedCount is the
\* number of targets that were not skipped as bots, and failedIds has
\* failedCount entries.
C1_TallyAddsUp ==
    \A r \in Reqs : Answered(r) =>
        /\ Len(req[r].outcome) = Len(req[r].targetUserIds)
        /\ req[r].resp.sentCount + req[r].resp.failedCount = NotBotSkipped(req[r])
        /\ Len(req[r].resp.failedIds) = req[r].resp.failedCount

C1_Witness ==
    \E r \in Reqs :
        /\ Answered(r)
        /\ {"bot", "sent", "resolveThrows"} \subseteq Range(req[r].outcome)
        /\ req[r].resp.failedCount = 1

NoDuplicates(s) == \A j, k \in 1..Len(s) : j # k => s[j] # s[k]

\* C6: the target list handed to the send loop holds no id twice, also when
\* the explicit list repeats an id.
C6_TargetsDistinct ==
    \A r \in Reqs :
        req[r].kind = "bulk" /\ req[r].pc \in {"fetchUser", "createDM", "send", "delay"}
            => NoDuplicates(req[r].targetUserIds)

\* C7: once the session has authenticated, a target whose resolution or send
\* throws is counted in failedCount and listed in failedIds, every later target
\* is still processed, and the request answers success with the tally.
C7_FailuresIsolated ==
    \A r \in Reqs : req[r].kind = "bulk" /\ req[r].loggedIn =>
        /\ req[r].results.failedIds =
               TargetsWith(req[r].targetUserIds, req[r].outcome, Failures)
        /\ req[r].results.failed = Len(req[r].results.failedIds)
        /\ req[r].pc = "done" =>
               /\ req[r].resp.status = 200
               /\ Len(req[r].outcome) = Len(req[r].targetUserIds)
               /\ req[r].resp.failedIds = req[r].results.failedIds
               /\ req[r].resp.failedCount = req[r].results.failed
               /\ req[r].resp.sentCount = Len(req[r].outcome) - Len(req[r].resp.failedIds)
                      - Len(TargetsWith(req[r].targetUserIds, req[r].outcome, {"bot"}))

C7_Witness ==
    \E r \in Reqs :
        /\ Answered(r)
        /\ req[r].targetUserIds = <<"u1", "u2">>
        /\ req[r].outcome = <<"sent", "resolveThrows">>
        /\ req[r].resp = [status |-> 200, sentCount |-> 1, failedCount |-> 1,
                          failedIds |-> <<"u2">>]

\* C8: with delay > 0 the loop waits after every attempted target that is not
\* the last one, whether the attempt succeeded or failed.
C8_WaitAfterEveryAttempt ==
    \A r \in Reqs : Answered(r) /\ req[r].delay > 0 =>
        \A k \in 1..(Len(req[r].targetUserIds) - 1) :
            req[r].outcome[k] # "bot" => k \in req[r].waits

\* C9: the loop never waits after the final target: no delay is pending or
\* recorded for the last position of the target list.
C9_NoTrailingWait ==
    \A r \in Reqs : req[r].kind = "bulk" =>
        /\ req[r].pc = "delay" => req[r].i < Len(req[r].targetUserIds)
        /\ \A k \in req[r].waits : k < Len(req[r].targetUserIds)

C9_Witness ==
    \E r \in Reqs :
        /\ Answered(r)
        /\ req[r].delay > 0
        /\ req[r].waits # {}
        /\ req[r].outcome[Len(req[r].outcome)] = "sent"

\* the send loop of the request is running
InLoop(r) ==
    req[r].kind = "bulk" /\ req[r].pc \in {"fetchUser", "createDM", "send", "delay"}

\* C15 as stated: the target list the send loop runs over holds no id of a
\* bot, whatever the explicit list and the members selectAll found.
C15_NoBotTargets ==
    \A r \in Reqs : InLoop(r) =>
        \A k \in 1..Len(req[r].targetUserIds) : ~IsBot(req[r].targetUserIds[k])

\* C15 amended: the target list starts with the explicit ids as given, and
\* no id that selectAll adds to it is the id of a bot; a bot in the list is
\* one of the explicit ids.
C15_NoBotAddedBySelectAll ==
    \A r \in Reqs : InLoop(r) =>
        /\ Len(req[r].userIds) <= Len(req[r].targetUserIds)
        /\ \A k \in 1..Len(req[r].targetUserIds) :
               IF k <= Len(req[r].userIds)
               THEN req[r].targetUserIds[k] = req[r].userIds[k]
               ELSE ~IsBot(req[r].targetUserIds[k])

C15_Witness ==
    \E r \in Reqs :
        /\ InLoop(r)
        /\ req[r].selectAll /\ "g2" \in req[r].fetched
        /\ req[r].userIds = <<"b1">>
        /\ req[r].targetUserIds = <<"b1", "u2">>

\* the positions of the target list whose attempt ended with one of the tags
Attempts(rq, tags) == {k \in 1..Len(rq.outcome) : rq.outcome[k] \in tags}

\* C17: a target that resolves to a bot user is skipped: it never reaches
\* createDM or send, and it adds nothing to the success count, the failed
\* count or failedIds, which count the sent and the failed targets only.
C17_BotsSkipped ==
    \A r \in Reqs : req[r].kind = "bulk" /\ req[r].loggedIn =>
        /\ req[r].pc \in {"createDM", "send", "delay"} =>
               ~IsBot(req[r].targetUserIds[req[r].i])
        /\ \A k \in 1..Len(req[r].outcome) :
               /\ req[r].outcome[k] = "bot" => IsBot(req[r].targetUserIds[k])
               /\ IsBot(req[r].targetUserIds[k]) =>
                      req[r].outcome[k] \in {"bot", "resolveThrows", "absent"}
        /\ req[r].results.success = Cardinality(Attempts(req[r], {"sent"}))
        /\ req[r].results.failed = Cardinality(Attempts(req[r], Failures))
        /\ Len(req[r].results.failedIds) = Cardinality(Attempts(req[r], Failures))
        /\ \A k \in Attempts(req[r], {"bot"}) :
               req[r].targetUserIds[k] \in Range(req[r].results.failedIds) =>
                   \E j \in Attempts(req[r], Failures) :
                       req[r].targetUserIds[j] = req[r].targetUserIds[k]

C17_Witness ==
    \E r \in Reqs :
        /\ Answered(r)
        /\ req[r].targetUserIds = <<"b1", "u1">>
        /\ req[r].outcome = <<"bot", "sent">>
        /\ req[r].resp = [status |-> 200, sentCount |-> 1, failedCount |-> 0,
                          failedIds |-> <<>>]

\* target i is attempted when exactly the i - 1 targets before it have got
\* their outcome
OneByOne(rq) ==
    /\ rq.i \in 0..Len(rq.targetUserIds)
    /\ rq.pc \in {"fetchUser", "createDM", "send"} =>
           rq.i >= 1 /\ Len(rq.outcome) = rq.i - 1
    /\ rq.pc \in {"delay", "done"} => Len(rq.outcome) = rq.i
    /\ rq.pc = "membersFetch" => rq.i = 0 /\ rq.outcome = <<>>
    /\ rq.pc = "done" => rq.i = Len(rq.targetUserIds)

TallyReturned(rq) ==
    /\ rq.pc = "done"
    /\ Len(rq.outcome) = Len(rq.targetUserIds)
    /\ rq.resp = [status |-> 200, sentCount |-> rq.results.success,
                  failedCount |-> rq.results.failed,
                  failedIds |-> rq.results.failedIds]

\* C19: once the session of a bulk dispatch has authenticated, the targets
\* are processed one by one in the order of the list, none twice and none
\* left out whatever the outcomes before it, and the request eventually
\* answers with the final tally.
C19_LoopRunsToCompletion ==
    /\ [](\A r \in Reqs : req[r].kind = "bulk" /\ req[r].loggedIn => OneByOne(req[r]))
    /\ [][\A r \in Reqs :
            req[r].kind = "bulk" /\ req[r].loggedIn /\ req'[r].kind = "bulk" =>
                /\ req'[r].i \in {req[r].i, req[r].i + 1}
                /\ req'[r].targetUserIds = req[r].targetUserIds \/ req[r].pc = "membersFetch"
                /\ \A k \in 1..Len(req[r].outcome) : req'[r].outcome[k] = req[r].outcome[k]]_vars
    /\ \A r \in Reqs :
           (req[r].kind = "bulk" /\ req[r].loggedIn) ~> TallyReturned(req[r])

C19_Witness ==
    \E r \in Reqs :
        /\ req[r].kind = "bulk" /\ TallyReturned(req[r])
        /\ req[r].targetUserIds = <<"u1", "b1", "u2">>
        /\ req[r].outcome = <<"resolveThrows", "bot", "sent">>

---------------------------------------------------------------------------
(* Properties of the member lists *)

\* the request is an answered preview of all guilds
PreviewAll(r) ==
    /\ req[r].kind = "members" /\ req[r].guildId = "none"
    /\ req[r].pc = "done" /\ req[r].resp.status = 200

\* the guilds, in the order of guildArray, whose member fetch gave member m
GuildsWith(m, fetched) ==
    {j \in 1..Len(Guilds) : Guilds[j] \in fetched /\ m \in Range(GuildMembers(Guilds[j]))}

\* C13: the preview of all guilds returns every member id at most once, and
\* the entry of a member carries the first guild, in enumeration order, in
\* which the member was found.
C13_OncePerMemberFirstGuild ==
    \A r \in Reqs : PreviewAll(r) =>
        /\ \A j, k \in 1..Len(req[r].members) :
               j # k => req[r].members[j].id # req[r].members[k].id
        /\ \A k \in 1..Len(req[r].members) :
               LET found == GuildsWith(req[r].members[k].id, req[r].fetched)
               IN  \E f \in found :
                       /\ Guilds[f] = req[r].members[k].guildId
                       /\ \A j \in found : f <= j

C13_Witness ==
    \E r \in Reqs :
        /\ PreviewAll(r)
        /\ req[r].fetched = {"g1", "g2"}
        /\ \E k \in 1..Len(req[r].members) :
               req[r].members[k] = MemberEntry("u2", "g1")

\* the request is an answered preview, of one guild or of all
Preview(r) == req[r].kind = "members" /\ req[r].pc = "done" /\ req[r].resp.status = 200

\* C14: the member preview, with or without guildId, returns no member that
\* is a bot.
C14_NoBotInPreview ==
    \A r \in Reqs : Preview(r) =>
        \A k \in 1..Len(req[r].members) : ~IsBot(req[r].members[k].id)

\* the members that are no bots of the guilds whose fetch succeeded
FetchedMembers(rq) ==
    {m \in Users : ~IsBot(m) /\ \E g \in rq.fetched : m \in Range(GuildMembers(g))}

\* C20: a guild whose member fetch fails is skipped and the resolution goes
\* on: with selectAll the target list keeps the explicit ids and has the
\* members of every guild that could be fetched, the preview of all guilds
\* lists the members of every such guild, every guild is tried, and neither
\* request fails because of the fetch.
C20_FailedGuildSkipped ==
    \A r \in Reqs : req[r].loggedIn =>
        /\ req[r].kind = "bulk" /\ req[r].selectAll /\ req[r].pc # "membersFetch" =>
               /\ req[r].gi = Len(Guilds)
               /\ SubSeq(req[r].targetUserIds, 1, Len(req[r].userIds)) = req[r].userIds
               /\ FetchedMembers(req[r]) \subseteq Range(req[r].targetUserIds)
               /\ req[r].pc = "done" => req[r].resp.status = 200
        /\ req[r].kind = "members" /\ req[r].guildId = "none" /\ req[r].pc = "done" =>
               /\ req[r].gi = Len(Guilds)
               /\ FetchedMembers(req[r]) \subseteq
                      {req[r].members[k].id : k \in 1..Len(req[r].members)}
               /\ req[r].resp.status = 200

C20_Witness ==
    \E r \in Reqs :
        /\ Answered(r)
        /\ req[r].selectAll /\ req[r].fetched = {"g2"}
        /\ req[r].userIds = <<"u1">>
        /\ req[r].targetUserIds = <<"u1", "u2">>

---------------------------------------------------------------------------
(* Properties of the sessions *)

Active(c) == sess[c].state = "authenticated"

\* the request promoted its client to the listening slot, has answered, and
\* no later promotion has replaced that client
LastPromotion(r) ==
    /\ req[r].handedOff /\ req[r].pc = "done"
    /\ discordClient = req[r].client

\* C2: a promotion, by a bulk dispatch or by startReplyListener, leaves exactly
\* one listening session active and the previously listening one destroyed,
\* whether the new session's login succeeded or failed.
C2_OneActiveListener ==
    \A r \in Reqs : LastPromotion(r) =>
        /\ Active(discordClient)
        /\ Cardinality({c \in SessIds : sess[c].observer /\ sess[c].state # "destroyed"}) = 1
        /\ req[r].prevListener # 0 => sess[req[r].prevListener].state = "destroyed"

\* C10: a request of /dm/single, /guild/members, /guilds or /dm/bulk that
\* opened a session has destroyed it when it answers, unless it is a bulk
\* dispatch that handed the session to the listening slot.
C10_DestroyedOnAnswer ==
    \A r \in Reqs :
        /\ req[r].kind \in {"single", "members", "guilds", "bulk"}
        /\ req[r].pc = "done"
        /\ req[r].client # 0
        => \/ sess[req[r].client].state = "destroyed"
           \/ req[r].kind = "bulk" /\ req[r].handedOff

C10_Witness ==
    /\ req["r1"].kind = "single" /\ req["r1"].pc = "done"
    /\ req["r1"].loggedIn /\ req["r1"].resp.status = 400
    /\ sess[req["r1"].client].state = "destroyed"
    /\ req["r2"].kind = "members" /\ req["r2"].pc = "done"
    /\ req["r2"].resp.status = 404
    /\ sess[req["r2"].client].state = "destroyed"

\* C11: when the login of a request that opened a session has failed, the
\* request answers with an error, the session it created is destroyed and
\* the listening slot does not hold it; this includes startReplyListener.
C11_NoSessionAfterFailedLogin ==
    \A r \in Reqs :
        req[r].pc = "done" /\ req[r].client # 0 /\ ~req[r].loggedIn =>
            /\ req[r].resp.status >= 400
            /\ sess[req[r].client].state = "destroyed"
            /\ discordClient # req[r].client

\* C18: once a bulk dispatch has put its client into the listening slot, the
\* request does not destroy it: as long as the slot holds that client, also
\* after an error raised behind the handoff, the client is not destroyed.
C18_ListenerSurvivesRequest ==
    \A r \in Reqs :
        req[r].kind = "bulk" /\ req[r].handedOff /\ discordClient = req[r].client =>
            sess[discordClient].state # "destroyed"

\* C16: when process.env.DISCORD_BOT_TOKEN is set, every session a handler
\* opens, startReplyListener included, is created with that token and not
\* with the token of the request.
C16_ConfiguredTokenWins ==
    envToken # NoToken =>
        \A c \in SessIds : sess[c].state # "none" => sess[c].token = envToken

\* the sessions that have a reply observer and are not destroyed
LiveObservers == {c \in SessIds : sess[c].observer /\ sess[c].state # "destroyed"}

\* C22: however bulk dispatches and startReplyListener requests interleave,
\* no two sessions that are not destroyed have a reply observer: a session
\* with an observer that is not the one in the listening slot is destroyed
\* and stays so.
C22_OneObserverAlive ==
    /\ Cardinality(LiveObservers) <= 1
    /\ \A c \in SessIds :
           sess[c].observer /\ c # discordClient => sess[c].state = "destroyed"

\* the step is one of bulk dispatch r and does not hand its client off
StepBeforeHandoff(r) ==
    /\ req[r].kind = "bulk" \/ req'[r].kind = "bulk"
    /\ req'[r] # req[r]
    /\ ~req[r].handedOff /\ ~req'[r].handedOff

\* C23: a bulk dispatch that aborts before the handoff, at a failed login or
\* in its catch, leaves the listening slot as it was: no step of the request
\* up to and including the abort changes discordClient or the session in it.
C23_AbortLeavesSlot ==
    [][\A r \in Reqs : StepBeforeHandoff(r) =>
          /\ discordClient' = discordClient
          /\ discordClient # 0 => sess'[discordClient] = sess[discordClient]]_vars

C23_Witness ==
    \E r \in Reqs :
        /\ req[r].kind = "bulk" /\ req[r].pc = "done" /\ req[r].resp.status = 400
        /\ req[r].client # 0 /\ ~req[r].handedOff
        /\ sess[req[r].client].state = "destroyed"
        /\ discordClient # 0 /\ discordClient # req[r].client
        /\ sess[discordClient].observer /\ sess[discordClient].state = "authenticated"

---------------------------------------------------------------------------
(* Properties of the hub *)

\* how often reply id was delivered to socket w as a newReply event
NewReplyCount(w, id) ==
    Cardinality({k \in 1..Len(ws[w].inbox) :
                    ws[w].inbox[k] = Event("newReply", <<id>>)})

\* how often reply id was delivered to socket w inside a snapshot
SnapshotCount(w, id) ==
    Cardinality({k \in 1..Len(ws[w].inbox) :
                    /\ ws[w].inbox[k].type = "initialReplies"
                    /\ id \in Range(ws[w].inbox[k].data)})

\* C3: the first event a subscriber receives is initialReplies: no newReply
\* is delivered to it before the snapshot.
C3_SnapshotFirst ==
    \A w \in WsIds :
        ws[w].inbox # <<>> => ws[w].inbox[1].type = "initialReplies"

\* C4: a subscriber that stays open and has its snapshot gets every stored
\* reply exactly once, in the snapshot or as a newReply.
C4_ExactlyOnce ==
    \A w \in WsIds :
        ws[w].readyState = "OPEN" /\ ws[w].snapshot = "done" /\ ingest = {} =>
            \A id \in Range(messageReplies) :
                SnapshotCount(w, id) + NewReplyCount(w, id) = 1

\* C5: a newReply is broadcast for a reply only after its insert succeeded,
\* and at most once; a reply whose insert failed is never broadcast.
C5_BroadcastAfterStore ==
    /\ \A id \in ReplyIds :
        /\ broadcast[id] <= 1
        /\ broadcast[id] > 0 => id \in Range(messageReplies)
    /\ \A w \in WsIds : \A k \in 1..Len(ws[w].inbox) :
        ws[w].inbox[k].type = "newReply" =>
            ws[w].inbox[k].data[1] \in Range(messageReplies)

C5_Witness ==
    /\ ingest = {}
    /\ \E id \in 1..nextReply : id \notin Range(messageReplies)
    /\ \E w \in WsIds, id \in Range(messageReplies) : NewReplyCount(w, id) = 1

\* C12: in a broadcast every subscriber that is open, other than one whose
\* send failed, receives the event, and the failure stays inside the
\* broadcast: a POST /api/replies whose reply was stored answers with it.
C12_FailuresSkipped ==
    lastBroadcast.id # 0 =>
        /\ \A w \in lastBroadcast.open \ {lastBroadcast.threw} :
               NewReplyCount(w, lastBroadcast.id) >= 1
        /\ lastBroadcast.path = "post" => lastBroadcast.status = 200

\* C21: a message the observer of a session gets becomes a reply exactly when
\* it came through a direct channel and its author is no bot: such a message
\* is handed to the store and, once stored, broadcast once; a message from a
\* guild channel or from a bot causes no insert and no broadcast.
C21_OnlyDirectNonBotMessages ==
    lastMessage.client # 0 =>
        /\ lastMessage.reply # 0 <=> (lastMessage.isDM /\ ~lastMessage.authorBot)
        /\ lastMessage.reply # 0 =>
               \/ \E op \in ingest : op.id = lastMessage.reply /\ op.path = "dm"
               \/ /\ lastMessage.reply \in Range(messageReplies)
                  /\ broadcast[lastMessage.reply] = 1
               \/ /\ lastMessage.reply \notin Range(messageReplies)
                  /\ broadcast[lastMessage.reply] = 0

C21_Witness ==
    /\ lastMessage.isDM /\ ~lastMessage.authorBot
    /\ lastMessage.reply \in Range(messageReplies)
    /\ broadcast[lastMessage.reply] = 1
    /\ \E w \in WsIds : NewReplyCount(w, lastMessage.reply) = 1

=============================================================================
